---- MODULE Spec2Model ----
(***************************************************************************)
(* Filter and projection subsystem of reana-client-go.                     *)
(*                                                                         *)
(*   SpecFD  the column projector, utils.FormatData (src/utils/utils.go)   *)
(*   SpecPF  the filter parser, utils.ParseFilterParameters, and its use   *)
(*           by the list command (src/cmd/list.go)                         *)
(*   SpecLogs  the logs command, logsOptions.run with filterJobLogs and    *)
(*           displayHumanFriendlyLogs (src/cmd/logs.go)                    *)
(*   SpecDu  the display of the du command, displayDuPayload               *)
(*           (src/unnamed/part_001)                                        *)
(*   SpecFm  the format parser, utils.ParseFormatParameters                *)
(*   SpecCase  the filter parser called on two inputs that differ in the   *)
(*           letter case of their keys                                     *)
(*   SpecFDOnce  one call of FormatData                                    *)
(*   SpecDet  filterJobLogs step by step, its records visited in any       *)
(*           order, and the filter parser called twice on one input        *)
(*                                                                         *)
(* Go slices are 0-based; the cursors col, row and i keep their Go values  *)
(* and the model indexes the TLA+ sequences at cursor + 1.                 *)
(***************************************************************************)
EXTENDS Integers, Sequences, FiniteSets, TLC

(***************************************************************************)
(* Bounds of the model.                                                    *)
(***************************************************************************)
MaxCols == 3
MaxRows == 2
MaxTokens == 3

(***************************************************************************)
(* Helpers on sequences.                                                   *)
(***************************************************************************)
SeqsUpTo(S, n) == UNION {[1..k -> S] : k \in 0..n}

\* append(s[:i], s[i+1:]...) for a 0-based i with 0 <= i < len(s).
RemoveAt(s, i) == SubSeq(s, 1, i) \o SubSeq(s, i + 2, Len(s))

(***************************************************************************)
(* Cells of a table are Go values of type any; FormatData compares their   *)
(* fmt.Sprint rendering with the rule value.                               *)
(***************************************************************************)
IntCell(n) == [kind |-> "int", n |-> n, s |-> ""]
StrCell(s) == [kind |-> "string", n |-> 0, s |-> s]

Digits == <<"0", "1", "2", "3", "4", "5", "6", "7", "8", "9">>

\* Decimal rendering of a one-digit integer.
Itoa(n) == Digits[n + 1]

\* A rendering that leaves integers unrendered (never equal to a rule value).
SprintNoInt(c) == IF c.kind = "int" THEN "<int>" ELSE c.s

\* fmt.Sprint(cell)
Sprint(c) == IF c.kind = "int" THEN Itoa(c.n) ELSE c.s

AllColNames == <<"A", "B", "C", "D", "E">>
ColNames == {AllColNames[k] : k \in 1..MaxCols}
Cells == {IntCell(2), StrCell("failed")}
RuleVals == {"", "2"}

Headers == {SubSeq(AllColNames, 1, n) : n \in 0..MaxCols}
RowsOf(h) == [1..Len(h) -> Cells]
RuleSets == UNION {[S -> RuleVals] : S \in SUBSET ColNames}

VARIABLES
    header,         \* *header
    data,           \* *data
    formatFilters,  \* the rule set, a Go map[string]string
    col,            \* cursor of the column loop
    row,            \* cursor of the row loop
    pc,             \* position in FormatData
    pass,           \* 1 for the first call, 2 for the call on its own output
    header0,        \* header at the start of the current call
    data0,          \* rows at the start of the current call
    origin          \* origin[k]: index in data0 of the row now at data[k]

fdvars == <<header, data, formatFilters, col, row, pc, pass, header0, data0, origin>>

VARIABLES
    filter,         \* the tokens given with --filter
    filterNames,    \* the key set of the command
    i,              \* index of the token the loop is at
    searchFilters,  \* map[string][]string
    statusFilters,  \* []string
    ppc,            \* "loop", "exit" (os.Exit(1)), "returned", "called"
    stdout,         \* what the error path printed: <<kind, argument>>
    ret,            \* <<statusFilters, searchFiltersString>> once returned
    listParams      \* <<status, search>> of the request, once built

pfvars == <<filter, filterNames, i, searchFilters, statusFilters, ppc, stdout, ret,
            listParams>>

VARIABLES
    lfilter,        \* o.filters of the logs command
    jsonOutput,     \* o.jsonOutput
    filters,        \* the filterer.Filters parsed from o.filters
    steps,          \* filters.GetMulti("step")
    logsParams,     \* the parameters of the GetWorkflowLogs request
    served,         \* job_logs as the service returned them
    jobLogs,        \* workflowLogs.JobLogs
    lpc,            \* position in logsOptions.run
    trace,          \* the stages the invocation went through, in order
    diag,           \* the step names of the not-found message, if printed
    shown,          \* what was displayed: <<mode, job ids>>
    result          \* "ok" (run returned nil), else the error run returned

lgvars == <<lfilter, jsonOutput, filters, steps, logsParams, served, jobLogs, lpc, trace,
            diag, shown, result>>

VARIABLES
    duInfo,         \* p.DiskUsageInfo of the du response
    humanReadable,  \* the --human-readable flag
    duIdx,          \* index of the entry the loop of displayDuPayload is at
    duRows,         \* rows
    dupc,           \* position in displayDuPayload
    duTable,        \* what DisplayTable was given: <<header, rows>>
    duErr           \* the error displayDuPayload returned, "nil" for none

duvars == <<duInfo, humanReadable, duIdx, duRows, dupc, duTable, duErr>>

VARIABLES
    formatOptions,  \* the tokens given with --format
    parsedFilters,  \* the rule set ParseFormatParameters builds
    fmIdx,          \* index of the token its loop is at
    fmpc            \* position in ParseFormatParameters

fmvars == <<formatOptions, parsedFilters, fmIdx, fmpc>>

VARIABLES
    other,          \* a second input of the filter parser, parsed after the first
    first           \* how the first parse ended: <<ppc, stdout, ret, i>>

csvars == <<other, first>>

VARIABLES
    visited,        \* the job ids the range loop of filterJobLogs has been at
    unwantedLogs,   \* unwantedLogs
    delIdx,         \* index of the delete loop
    fjpc            \* position in filterJobLogs

fjvars == <<visited, unwantedLogs, delIdx, fjpc>>

xvars == <<lgvars, duvars, fmvars, csvars, fjvars>>

vars == <<fdvars, pfvars, xvars>>

\* No FormatData call in this run.
IdleFD ==
    /\ header = <<>>
    /\ data = <<>>
    /\ formatFilters = <<>>
    /\ col = 0
    /\ row = 0
    /\ pc = "idle"
    /\ pass = 0
    /\ header0 = <<>>
    /\ data0 = <<>>
    /\ origin = <<>>

\* No ParseFilterParameters call in this run.
IdlePF ==
    /\ filter = <<>>
    /\ filterNames = <<>>
    /\ i = 0
    /\ searchFilters = <<>>
    /\ statusFilters = <<>>
    /\ ppc = "idle"
    /\ stdout = <<>>
    /\ ret = <<>>
    /\ listParams = <<>>

\* No logs command in this run.
IdleLogs ==
    /\ lfilter = <<>>
    /\ jsonOutput = FALSE
    /\ filters = <<>>
    /\ steps = <<>>
    /\ logsParams = <<>>
    /\ served = <<>>
    /\ jobLogs = <<>>
    /\ lpc = "idle"
    /\ trace = <<>>
    /\ diag = <<>>
    /\ shown = <<>>
    /\ result = ""

\* No displayDuPayload call in this run.
IdleDu ==
    /\ duInfo = <<>>
    /\ humanReadable = FALSE
    /\ duIdx = 0
    /\ duRows = <<>>
    /\ dupc = "idle"
    /\ duTable = <<>>
    /\ duErr = ""

\* No ParseFormatParameters call in this run.
IdleFm ==
    /\ formatOptions = <<>>
    /\ parsedFilters = <<>>
    /\ fmIdx = 0
    /\ fmpc = "idle"

\* No step-by-step filterJobLogs in this run.
IdleFJ ==
    /\ visited = {}
    /\ unwantedLogs = <<>>
    /\ delIdx = 0
    /\ fjpc = "idle"

\* No second parse in this run.
IdleCase ==
    /\ other = <<>>
    /\ first = <<>>

(***************************************************************************)
(* FormatData, src/utils/utils.go:142-168.                                 *)
(***************************************************************************)

\* A guard that never takes the early return.
NoRulesNever(f) == FALSE

\* len(formatFilters) == 0
NoRules(f) == DOMAIN f = {}

\* A lookup that finds every column in the rule set.
IncludeAlways(f, name) == TRUE

\* filter, include := formatFilters[name]
Include(f, name) == name \in DOMAIN f
FilterOf(f, name) == IF name \in DOMAIN f THEN f[name] ELSE ""

\* The cursor when the removal forgets col--.
AfterColumnRemovedSkip(c) == c + 1

\* col-- in the removal branch, then the loop's col++.
AfterColumnRemoved(c) == (c - 1) + 1

\* The cursor when the removal forgets row--.
AfterRowRemovedSkip(r) == r + 1

\* row-- in the removal branch, then the loop's row++.
AfterRowRemoved(r) == (r - 1) + 1

\* The column is cut out of every row but the last one.
RemoveColumnFromRowsButLast(d, c) ==
    [r \in DOMAIN d |-> IF r < Len(d) THEN RemoveAt(d[r], c) ELSE d[r]]

\* for row := range *data { (*data)[row] = append(...) }
RemoveColumnFromRows(d, c) == [r \in DOMAIN d |-> RemoveAt(d[r], c)]

InitFD ==
    /\ header \in Headers
    /\ data \in SeqsUpTo(RowsOf(header), MaxRows)
    /\ formatFilters \in RuleSets
    /\ col = 0
    /\ row = 0
    /\ pc = "call"
    /\ pass = 1
    /\ header0 = header
    /\ data0 = data
    /\ origin = [k \in 1..Len(data) |-> k]
    /\ IdlePF
    /\ IdleLogs
    /\ IdleDu
    /\ IdleFm
    /\ IdleCase
    /\ IdleFJ

\* if len(formatFilters) == 0 { return }
FD_ReturnNoRules ==
    /\ pc = "call"
    /\ NoRules(formatFilters)
    /\ pc' = "done"
    /\ UNCHANGED <<header, data, formatFilters, col, row, pass, header0, data0, origin, pfvars, xvars>>

\* for col := 0; ...
FD_EnterColumnLoop ==
    /\ pc = "call"
    /\ ~NoRules(formatFilters)
    /\ col' = 0
    /\ pc' = "col"
    /\ UNCHANGED <<header, data, formatFilters, row, pass, header0, data0, origin, pfvars, xvars>>

\* !include: remove the column from header and data, col--, col++
FD_RemoveColumn ==
    /\ pc = "col"
    /\ col < Len(header)
    /\ ~Include(formatFilters, header[col + 1])
    /\ header' = RemoveAt(header, col)
    /\ data' = RemoveColumnFromRows(data, col)
    /\ col' = AfterColumnRemoved(col)
    /\ UNCHANGED <<formatFilters, row, pc, pass, header0, data0, origin, pfvars, xvars>>

\* include && filter != "": enter the row loop
FD_EnterRowLoop ==
    /\ pc = "col"
    /\ col < Len(header)
    /\ Include(formatFilters, header[col + 1])
    /\ FilterOf(formatFilters, header[col + 1]) # ""
    /\ row' = 0
    /\ pc' = "row"
    /\ UNCHANGED <<header, data, formatFilters, col, pass, header0, data0, origin, pfvars, xvars>>

\* include && filter == "": nothing to do, col++
FD_KeepColumn ==
    /\ pc = "col"
    /\ col < Len(header)
    /\ Include(formatFilters, header[col + 1])
    /\ FilterOf(formatFilters, header[col + 1]) = ""
    /\ col' = col + 1
    /\ UNCHANGED <<header, data, formatFilters, row, pc, pass, header0, data0, origin, pfvars, xvars>>

\* val != filter: remove the row, row--, row++
FD_RemoveRow ==
    /\ pc = "row"
    /\ row < Len(data)
    /\ Sprint(data[row + 1][col + 1]) # FilterOf(formatFilters, header[col + 1])
    /\ data' = RemoveAt(data, row)
    /\ origin' = SubSeq(origin, 1, row) \o SubSeq(origin, row + 2, Len(origin))
    /\ row' = AfterRowRemoved(row)
    /\ UNCHANGED <<header, formatFilters, col, pc, pass, header0, data0, pfvars, xvars>>

\* val == filter: row++
FD_KeepRow ==
    /\ pc = "row"
    /\ row < Len(data)
    /\ Sprint(data[row + 1][col + 1]) = FilterOf(formatFilters, header[col + 1])
    /\ row' = row + 1
    /\ UNCHANGED <<header, data, formatFilters, col, pc, pass, header0, data0, origin, pfvars, xvars>>

\* row == len(*data): the row loop ends, col++
FD_RowLoopEnd ==
    /\ pc = "row"
    /\ row >= Len(data)
    /\ col' = col + 1
    /\ pc' = "col"
    /\ UNCHANGED <<header, data, formatFilters, row, pass, header0, data0, origin, pfvars, xvars>>

\* col == len(*header): the column loop ends, FormatData returns
FD_ColumnLoopEnd ==
    /\ pc = "col"
    /\ col >= Len(header)
    /\ pc' = "done"
    /\ UNCHANGED <<header, data, formatFilters, col, row, pass, header0, data0, origin, pfvars, xvars>>

\* FormatData called again with the same rule set on the table it produced.
FD_CallAgain ==
    /\ pc = "done"
    /\ pass = 1
    /\ pass' = 2
    /\ pc' = "call"
    /\ col' = 0
    /\ row' = 0
    /\ header0' = header
    /\ data0' = data
    /\ origin' = [k \in 1..Len(data) |-> k]
    /\ UNCHANGED <<header, data, formatFilters, pfvars, xvars>>

NextFD ==
    \/ FD_ReturnNoRules
    \/ FD_EnterColumnLoop
    \/ FD_RemoveColumn
    \/ FD_EnterRowLoop
    \/ FD_KeepColumn
    \/ FD_RemoveRow
    \/ FD_KeepRow
    \/ FD_RowLoopEnd
    \/ FD_ColumnLoopEnd
    \/ FD_CallAgain

SpecFD == InitFD /\ [][NextFD]_vars

\* One call of FormatData, without the second call on its own output.
NextFDOnce ==
    \/ FD_ReturnNoRules
    \/ FD_EnterColumnLoop
    \/ FD_RemoveColumn
    \/ FD_EnterRowLoop
    \/ FD_KeepColumn
    \/ FD_RemoveRow
    \/ FD_KeepRow
    \/ FD_RowLoopEnd
    \/ FD_ColumnLoopEnd

SpecFDOnce == InitFD /\ [][NextFDOnce]_vars

(***************************************************************************)
(* ParseFilterParameters, src/utils/utils.go:85-127, and its caller list,  *)
(* src/cmd/list.go:79-107.                                                 *)
(*                                                                         *)
(* A Go string is a sequence of atoms; the atom "=" is the character '='   *)
(* and every other atom is a run of characters without '='.  No atom is a  *)
(* concatenation of other atoms, so two strings are equal exactly when     *)
(* their atom sequences are.  A string constant of the source is a         *)
(* one-atom sequence.                                                      *)
(***************************************************************************)
S(a) == <<a>>

KeyAtoms == {"name", "size", "status", "STATUS", "Bogus"}
ValAtoms == {"failed", "Failed", "deleted"}

Tokens ==
    {<<k, "=", v>> : k \in KeyAtoms, v \in ValAtoms}
        \cup {<<"status">>, <<"name", "=">>, <<"size", "=", "failed", "=", "deleted">>}

\* filterNames := []string{"name", "status"} in list
ListFilterNames == <<S("name"), S("status")>>

\* The key sets ParseFilterParameters is called with.
FilterNameSets == {ListFilterNames, <<S("name"), S("size"), S("status")>>}

\* The run statuses without the "deleted" that includeDeleted appends.
GetRunStatusesNoDeleted(includeDeleted) ==
    <<S("created"), S("running"), S("finished"), S("failed"), S("stopped"),
      S("queued"), S("pending")>>

\* GetRunStatuses(includeDeleted)
GetRunStatuses(includeDeleted) ==
    LET runStatuses == <<S("created"), S("running"), S("finished"), S("failed"),
                         S("stopped"), S("queued"), S("pending")>>
    IN IF includeDeleted THEN Append(runStatuses, S("deleted")) ELSE runStatuses

\* slices.Contains(list, x)
SliceContains(list, x) == \E k \in 1..Len(list) : list[k] = x

\* A check that takes every token for well formed.
StringsContainsAlways(str, a) == TRUE

\* strings.Contains(str, a) for a one-character a
StringsContains(str, a) == \E k \in 1..Len(str) : str[k] = a

\* Index of the first '=' of str, len(str)+1 when there is none.
IndexEq(str) ==
    IF \E k \in 1..Len(str) : str[k] = "="
    THEN CHOOSE k \in 1..Len(str) :
             str[k] = "=" /\ \A m \in 1..(k - 1) : str[m] # "="
    ELSE Len(str) + 1

\* strings.SplitN(str, "=", 2)[0]
SplitHead(str) == SubSeq(str, 1, IndexEq(str) - 1)

\* strings.SplitN(str, "=", 2)[1]; read only for a str that contains '='
SplitTail(str) == SubSeq(str, IndexEq(str) + 1, Len(str))

LowerAtom(a) ==
    CASE a = "STATUS" -> "status"
      [] a = "Failed" -> "failed"
      [] a = "Bogus" -> "bogus"
      [] a = "Name" -> "name"
      [] OTHER -> a

\* A case folding that leaves the string as typed.
StringsToLowerNot(str) == str

\* strings.ToLower(str)
StringsToLower(str) == [k \in 1..Len(str) |-> LowerAtom(str[k])]

\* The name as typed, not case folded.
FilterNameAsTyped(tok) == SplitHead(tok)

\* filterName of a token
FilterName(tok) == StringsToLower(SplitHead(tok))

\* filterValue of a token
FilterValue(tok) == SplitTail(tok)

\* An append that drops a value the list already holds.
AppendValueUnique(list, v) == IF SliceContains(list, v) THEN list ELSE Append(list, v)

\* append(list, v)
AppendValue(list, v) == Append(list, v)

\* A write that replaces the values the key already has.
MapAppendReplace(m, name, v) ==
    [k \in DOMAIN m \cup {name} |-> IF k = name THEN <<v>> ELSE m[k]]

\* append(searchFilters[name], v) on a map: a missing key reads as nil
MapAppend(m, name, v) ==
    [k \in DOMAIN m \cup {name} |->
        IF k = name
        THEN AppendValue(IF name \in DOMAIN m THEN m[name] ELSE <<>>, v)
        ELSE m[k]]

\* A guard that always serializes.
HasSearchFiltersAlways(m) == TRUE

\* len(searchFilters) > 0
HasSearchFilters(m) == DOMAIN m # {}

RECURSIVE Join(_, _)
\* The strings of parts, sep between two neighbours.
Join(parts, sep) ==
    IF Len(parts) = 0 THEN <<>>
    ELSE IF Len(parts) = 1 THEN parts[1]
    ELSE parts[1] \o sep \o Join(Tail(parts), sep)

\* encoding/json sorts the keys of a map; the declared names in that order.
SortedNames == <<S("name"), S("size"), S("status")>>

JsonString(str) == <<"\"">> \o str \o <<"\"">>

JsonArray(vs) ==
    <<"[">> \o Join([k \in 1..Len(vs) |-> JsonString(vs[k])], <<",">>) \o <<"]">>

\* string(json.Marshal(m)) for a map[string][]string
JsonMarshal(m) ==
    LET keys == SelectSeq(SortedNames, LAMBDA k : k \in DOMAIN m)
    IN <<"{">>
           \o Join([k \in 1..Len(keys) |->
                       JsonString(keys[k]) \o <<":">> \o JsonArray(m[keys[k]])],
                   <<",">>)
           \o <<"}">>

\* The empty map made by make(map[string][]string).
EmptyMap == [k \in {} |-> <<>>]

InitPF ==
    /\ filterNames \in FilterNameSets
    /\ filter \in SeqsUpTo(Tokens, MaxTokens)
    /\ i = 0
    /\ searchFilters = EmptyMap
    /\ statusFilters = <<>>
    /\ ppc = "loop"
    /\ stdout = <<>>
    /\ ret = <<>>
    /\ listParams = <<>>
    /\ IdleFD
    /\ IdleLogs
    /\ IdleDu
    /\ IdleFm
    /\ IdleCase
    /\ IdleFJ

\* !strings.Contains(value, "="): print the format error, os.Exit(1)
PF_ExitWrongFormat ==
    /\ ppc = "loop"
    /\ i < Len(filter)
    /\ ~StringsContains(filter[i + 1], "=")
    /\ stdout' = <<"wrong_input_format", <<>>>>
    /\ ppc' = "exit"
    /\ UNCHANGED <<filter, filterNames, i, searchFilters, statusFilters, ret, listParams,
                   fdvars, xvars>>

\* !slices.Contains(filterNames, filterName): print the name, os.Exit(1)
PF_ExitFilterNotValid ==
    /\ ppc = "loop"
    /\ i < Len(filter)
    /\ StringsContains(filter[i + 1], "=")
    /\ ~SliceContains(filterNames, FilterName(filter[i + 1]))
    /\ stdout' = <<"filter_not_valid", FilterName(filter[i + 1])>>
    /\ ppc' = "exit"
    /\ UNCHANGED <<filter, filterNames, i, searchFilters, statusFilters, ret, listParams,
                   fdvars, xvars>>

\* filterName == "status" and the value is no run status: print it, os.Exit(1)
PF_ExitStatusNotValid ==
    /\ ppc = "loop"
    /\ i < Len(filter)
    /\ StringsContains(filter[i + 1], "=")
    /\ SliceContains(filterNames, FilterName(filter[i + 1]))
    /\ FilterName(filter[i + 1]) = S("status")
    /\ ~SliceContains(GetRunStatuses(TRUE), FilterValue(filter[i + 1]))
    /\ stdout' = <<"status_not_valid", FilterValue(filter[i + 1])>>
    /\ ppc' = "exit"
    /\ UNCHANGED <<filter, filterNames, i, searchFilters, statusFilters, ret, listParams,
                   fdvars, xvars>>

\* statusFilters = append(statusFilters, filterValue)
PF_AppendStatus ==
    /\ ppc = "loop"
    /\ i < Len(filter)
    /\ StringsContains(filter[i + 1], "=")
    /\ SliceContains(filterNames, FilterName(filter[i + 1]))
    /\ FilterName(filter[i + 1]) = S("status")
    /\ SliceContains(GetRunStatuses(TRUE), FilterValue(filter[i + 1]))
    /\ statusFilters' = AppendValue(statusFilters, FilterValue(filter[i + 1]))
    /\ i' = i + 1
    /\ UNCHANGED <<filter, filterNames, searchFilters, ppc, stdout, ret, listParams,
                   fdvars, xvars>>

\* searchFilters[filterName] = append(searchFilters[filterName], filterValue)
PF_AppendSearch ==
    /\ ppc = "loop"
    /\ i < Len(filter)
    /\ StringsContains(filter[i + 1], "=")
    /\ SliceContains(filterNames, FilterName(filter[i + 1]))
    /\ FilterName(filter[i + 1]) # S("status")
    /\ searchFilters' =
           MapAppend(searchFilters, FilterName(filter[i + 1]), FilterValue(filter[i + 1]))
    /\ i' = i + 1
    /\ UNCHANGED <<filter, filterNames, statusFilters, ppc, stdout, ret, listParams,
                   fdvars, xvars>>

\* After the loop: marshal the search filters if there are any, and return.
PF_Return ==
    /\ ppc = "loop"
    /\ i >= Len(filter)
    /\ ret' = <<statusFilters,
                IF HasSearchFilters(searchFilters) THEN JsonMarshal(searchFilters)
                ELSE <<>>>>
    /\ ppc' = "returned"
    /\ UNCHANGED <<filter, filterNames, i, searchFilters, statusFilters, stdout,
                   listParams, fdvars, xvars>>

\* list: listParams.SetStatus(statusFilters); listParams.SetSearch(&searchFilter)
List_SetParams ==
    /\ ppc = "returned"
    /\ filterNames = ListFilterNames
    /\ listParams' = <<ret[1], ret[2]>>
    /\ ppc' = "called"
    /\ UNCHANGED <<filter, filterNames, i, searchFilters, statusFilters, stdout, ret,
                   fdvars, xvars>>

NextPF ==
    \/ PF_ExitWrongFormat
    \/ PF_ExitFilterNotValid
    \/ PF_ExitStatusNotValid
    \/ PF_AppendStatus
    \/ PF_AppendSearch
    \/ PF_Return
    \/ List_SetParams

SpecPF == InitPF /\ [][NextPF]_vars

(***************************************************************************)
(* The logs command, src/cmd/logs.go:108-279.                              *)
(*                                                                         *)
(* The packages pkg/filterer and pkg/config are outside the sources at     *)
(* hand: the filterer (NewFilters, ValidateValues, GetSingle, GetMulti)    *)
(* and the configuration values (the key sets of the command, the backend  *)
(* alias table) follow the written specification of the parser.  What      *)
(* logs.go does with them follows logs.go.                                 *)
(***************************************************************************)
MaxLogTokens == 2
MaxJobs == 2

\* config.LogsSingleFilters, config.LogsMultiFilters
LogsSingleFilters == <<S("compute_backend"), S("docker_img"), S("status")>>
LogsMultiFilters == <<S("step")>>

\* config.ReanaComputeBackends: alias -> internal identifier
ReanaComputeBackends ==
    [a \in {S("kubernetes"), S("htcondor")} |->
        IF a = S("kubernetes") THEN S("k8s") ELSE S("htc")]

\* config.ReanaComputeBackendKeys
ReanaComputeBackendKeys == <<S("kubernetes"), S("htcondor")>>

\* The tokens given to logs with --filter.
LogTokens ==
    { <<"step", "=", "a">>, <<"step", "=", "zz">>,
      <<"compute_backend", "=", "kubernetes">>, <<"compute_backend", "=", "htcondor">>,
      <<"status", "=", "failed">>, <<"docker_img", "=">>,
      <<"step">>, <<"status", "=", "Bogus">>, <<"compute_backend", "=", "k8s">>,
      <<"name", "=", "a">> }

\* m[k] of a Go map[string]string: a missing key reads as "".
MapGet(m, k) == IF k \in DOMAIN m THEN m[k] ELSE <<>>

NoFilters(single, multi) ==
    [SingleFilterKeys |-> single, MultiFilterKeys |-> multi,
     single |-> [k \in {} |-> <<>>], multi |-> [k \in {} |-> <<>>]]

RECURSIVE ParseFrom(_, _, _)
\* The filterer's loop over the tokens from position k on: <<error, Filters>>.
ParseFrom(f, input, k) ==
    IF k > Len(input) THEN [err |-> "", f |-> f]
    ELSE LET tok == input[k]
             name == FilterName(tok)
             value == FilterValue(tok)
         IN IF ~StringsContains(tok, "=") THEN [err |-> "format", f |-> f]
            ELSE IF SliceContains(f.SingleFilterKeys, name)
            THEN ParseFrom([f EXCEPT !.single =
                               [x \in DOMAIN f.single \cup {name} |->
                                   IF x = name THEN value ELSE f.single[x]]],
                           input, k + 1)
            ELSE IF SliceContains(f.MultiFilterKeys, name)
            THEN ParseFrom([f EXCEPT !.multi = MapAppend(f.multi, name, value)],
                           input, k + 1)
            ELSE [err |-> "key", f |-> f]

\* filterer.NewFilters(single, multi, input)
NewFilters(single, multi, input) == ParseFrom(NoFilters(single, multi), input, 1)

\* filters.GetSingle(key): the value, "" when the key has none
GetSingle(f, key) == MapGet(f.single, key)

\* filters.GetMulti(key): the values in input order
GetMulti(f, key) == IF key \in DOMAIN f.multi THEN f.multi[key] ELSE <<>>

\* filters.ValidateValues(key, domain): TRUE when every value of key is in domain
ValidateValues(f, key, domain) ==
    /\ key \in DOMAIN f.single => SliceContains(domain, f.single[key])
    /\ key \in DOMAIN f.multi =>
           \A k \in 1..Len(f.multi[key]) : SliceContains(domain, f.multi[key][k])

\* parseLogsFilters(o.filters): "" or the kind of the error it returns
ParseLogsFiltersErr(input) ==
    LET r == NewFilters(LogsSingleFilters, LogsMultiFilters, input)
    IN IF r.err # "" THEN r.err
       ELSE IF ~ValidateValues(r.f, S("status"), GetRunStatuses(TRUE)) THEN "status"
       ELSE IF ~ValidateValues(r.f, S("compute_backend"), ReanaComputeBackendKeys)
       THEN "compute_backend"
       ELSE ""

\* The Filters parseLogsFilters returns when it returns no error.
ParseLogsFilters(input) == NewFilters(LogsSingleFilters, LogsMultiFilters, input).f

\* A *string of a jobLogItem: nil, or a pointer to a string.
NilPtr == [isNil |-> TRUE, v |-> <<>>]
PtrTo(str) == [isNil |-> FALSE, v |-> str]

\* The job ids of a response and the step each job ran.
AllJobIds == <<"j1", "j2", "j3", "j4">>
JobIds == {AllJobIds[k] : k \in 1..MaxJobs}
JobNameOf(id) ==
    CASE id = "j1" -> S("a")
      [] id = "j2" -> S("b")
      [] id = "j3" -> S("zz")
      [] OTHER -> S("a")

\* The backends and the statuses the records of job id are drawn from.
BackendsOf(id) == IF id = "j2" THEN {S("k8s")} ELSE {S("k8s"), S("htc")}
StatusesOf(id) == IF id = "j3" THEN {S("finished")} ELSE {S("failed"), S("finished")}

\* The jobLogItem values a response holds for job id; a job that has not
\* finished has no start time.
JobLogItems(id) ==
    {[job_name |-> JobNameOf(id), compute_backend |-> cb, docker_img |-> S("img"),
      status |-> st,
      started_at |-> IF st = S("finished") THEN PtrTo(S("t")) ELSE NilPtr] :
        cb \in BackendsOf(id), st \in StatusesOf(id)}

\* The job_logs objects a response can carry: map[string]jobLogItem.
Payloads ==
    UNION {{p \in [D -> UNION {JobLogItems(id) : id \in D}] :
               \A id \in D : p[id] \in JobLogItems(id)} : D \in SUBSET JobIds}

\* The JSON round trip of filterJobLogs: every field as a string, null as "".
JsonFields(item) ==
    [k \in {S("job_name"), S("compute_backend"), S("docker_img"), S("status"),
            S("started_at")} |->
        CASE k = S("job_name") -> item.job_name
          [] k = S("compute_backend") -> item.compute_backend
          [] k = S("docker_img") -> item.docker_img
          [] k = S("status") -> item.status
          [] OTHER -> IF item.started_at.isNil THEN <<>> ELSE item.started_at.v]

\* jobLogsMap of filterJobLogs
JobLogsMap(jl) == [id \in DOMAIN jl |-> JsonFields(jl[id])]

\* A comparison with the value as typed, for every key.
FilterValueAsTyped(filterKey, filterValue) == filterValue

\* filterValue after the remap of lines 197-199
RemappedValue(filterKey, filterValue) ==
    IF filterKey = S("compute_backend")
    THEN MapGet(ReanaComputeBackends, StringsToLower(filterValue))
    ELSE filterValue

\* A record is unwanted only when every active key differs.
IsUnwantedAllKeys(f, jobLogValue) ==
    /\ \E k \in 1..Len(f.SingleFilterKeys) :
           RemappedValue(f.SingleFilterKeys[k], GetSingle(f, f.SingleFilterKeys[k])) # <<>>
    /\ \A k \in 1..Len(f.SingleFilterKeys) :
           LET filterKey == f.SingleFilterKeys[k]
               filterValue == RemappedValue(filterKey, GetSingle(f, filterKey))
           IN filterValue # <<>> => MapGet(jobLogValue, filterKey) # filterValue

\* The inner loop of filterJobLogs: some key appends the record and breaks.
IsUnwanted(f, jobLogValue) ==
    \E k \in 1..Len(f.SingleFilterKeys) :
        LET filterKey == f.SingleFilterKeys[k]
            filterValue == RemappedValue(filterKey, GetSingle(f, filterKey))
        IN filterValue # <<>> /\ MapGet(jobLogValue, filterKey) # filterValue

\* unwantedLogs of filterJobLogs
UnwantedLogs(jl, f) == {id \in DOMAIN jl : IsUnwanted(f, JobLogsMap(jl)[id])}

\* The collection rebuilt from the string map: a nil pointer comes back as "".
DeleteFromMap(jl, unwanted) ==
    [id \in DOMAIN jl \ unwanted |->
        [jl[id] EXCEPT !.started_at = PtrTo(JsonFields(jl[id])[S("started_at")])]]

\* for _, log := range unwantedLogs { delete(*jobLogs, log) }
DeleteLogs(jl, unwanted) == [id \in DOMAIN jl \ unwanted |-> jl[id]]

\* Every requested step is taken for returned.
MissingStepNamesNone(jl, st) == <<>>

\* missingStepNames of displayHumanFriendlyLogs
MissingStepNames(jl, st) ==
    LET returnedStepNames == {jl[id].job_name : id \in DOMAIN jl}
    IN SelectSeq(st, LAMBDA step : step \notin returnedStepNames)

\* The display given the records as the service returned them.
LogsAsServed(servedLogs, filteredLogs) == servedLogs

\* workflowLogs.JobLogs as run hands it to the display: after filterJobLogs
LogsToDisplay(servedLogs, filteredLogs) == filteredLogs

\* A request that carries no step.
RequestWithoutSteps(st) ==
    [access_token |-> S("token"), workflow_id_or_name |-> S("workflow"), page |-> S("1"),
     steps |-> <<>>]

\* logsParams of run: SetAccessToken, SetWorkflowIDOrName, SetPage, SetSteps
LogsRequest(st) ==
    [access_token |-> S("token"), workflow_id_or_name |-> S("workflow"), page |-> S("1"),
     steps |-> st]

\* A run that filters right after the parse, before any call.
AfterParsedFilter == "filter"

\* Where run goes once the filters are parsed: it builds the request and calls.
AfterParsed == "call"

\* A run that goes on to the display after a failed call.
AfterCallFailedDisplay == "display"

\* Where run goes when the call or the deserialization fails: return err.
AfterCallFailed == "end"

InitLogs ==
    /\ lfilter \in SeqsUpTo(LogTokens, MaxLogTokens)
    /\ jsonOutput \in BOOLEAN
    /\ filters = <<>>
    /\ steps = <<>>
    /\ logsParams = <<>>
    /\ served = <<>>
    /\ jobLogs = <<>>
    /\ lpc = "run"
    /\ trace = <<>>
    /\ diag = <<>>
    /\ shown = <<>>
    /\ result = ""
    /\ IdleFD
    /\ IdlePF
    /\ IdleDu
    /\ IdleFm
    /\ IdleCase
    /\ IdleFJ

\* parseLogsFilters returns an error: return err
L_ParseError ==
    /\ lpc = "run"
    /\ ParseLogsFiltersErr(lfilter) # ""
    /\ trace' = Append(trace, "parse")
    /\ result' = ParseLogsFiltersErr(lfilter)
    /\ lpc' = "end"
    /\ UNCHANGED <<lfilter, jsonOutput, filters, steps, logsParams, served, jobLogs, diag,
                   shown, fdvars, pfvars,
                   duvars, fmvars, csvars, fjvars>>

\* parseLogsFilters succeeds; steps, err := filters.GetMulti("step")
L_Parsed ==
    /\ lpc = "run"
    /\ ParseLogsFiltersErr(lfilter) = ""
    /\ filters' = ParseLogsFilters(lfilter)
    /\ steps' = GetMulti(filters', S("step"))
    /\ trace' = Append(trace, "parse")
    /\ lpc' = AfterParsed
    /\ UNCHANGED <<lfilter, jsonOutput, logsParams, served, jobLogs, diag, shown, result,
                   fdvars, pfvars,
                   duvars, fmvars, csvars, fjvars>>

\* api.Operations.GetWorkflowLogs(logsParams) returns an error: return err
L_RemoteError ==
    /\ lpc = "call"
    /\ logsParams' = LogsRequest(steps)
    /\ trace' = Append(trace, "remote")
    /\ result' = "remote"
    /\ lpc' = AfterCallFailed
    /\ UNCHANGED <<lfilter, jsonOutput, filters, steps, served, jobLogs, diag, shown,
                   fdvars, pfvars,
                   duvars, fmvars, csvars, fjvars>>

\* The call answers, json.Unmarshal of the payload fails: return err
L_UnmarshalError ==
    /\ lpc = "call"
    /\ logsParams' = LogsRequest(steps)
    /\ trace' = Append(trace, "remote")
    /\ result' = "unmarshal"
    /\ lpc' = AfterCallFailed
    /\ UNCHANGED <<lfilter, jsonOutput, filters, steps, served, jobLogs, diag, shown,
                   fdvars, pfvars,
                   duvars, fmvars, csvars, fjvars>>

\* The call answers and the payload deserializes into workflowLogs.
L_Unmarshalled ==
    /\ lpc = "call"
    /\ logsParams' = LogsRequest(steps)
    /\ \E p \in Payloads :
           /\ served' = p
           /\ jobLogs' = p
    /\ trace' = Append(trace, "remote")
    /\ lpc' = "filter"
    /\ UNCHANGED <<lfilter, jsonOutput, filters, steps, diag, shown, result, fdvars, pfvars,
                   duvars, fmvars, csvars, fjvars>>

\* filterJobLogs(&workflowLogs.JobLogs, filters)
L_FilterJobLogs ==
    /\ lpc = "filter"
    /\ jobLogs' = DeleteLogs(jobLogs, UnwantedLogs(jobLogs, filters))
    /\ trace' = Append(trace, "filter")
    /\ lpc' = "display"
    /\ UNCHANGED <<lfilter, jsonOutput, filters, steps, logsParams, served, diag, shown,
                   result, fdvars, pfvars,
                   duvars, fmvars, csvars, fjvars>>

\* o.jsonOutput: displayer.DisplayJsonOutput(workflowLogs, ...); return nil
L_DisplayJson ==
    /\ lpc = "display"
    /\ jsonOutput
    /\ shown' = [mode |-> "json", jobs |-> jobLogs]
    /\ trace' = Append(trace, "display")
    /\ result' = "ok"
    /\ lpc' = "end"
    /\ UNCHANGED <<lfilter, jsonOutput, filters, steps, logsParams, served, jobLogs, diag,
                   fdvars, pfvars,
                   duvars, fmvars, csvars, fjvars>>

\* displayHumanFriendlyLogs(cmd, workflowLogs, steps); return nil
L_DisplayHuman ==
    /\ lpc = "display"
    /\ ~jsonOutput
    /\ diag' = IF Len(steps) > 0
               THEN MissingStepNames(LogsToDisplay(served, jobLogs), steps)
               ELSE <<>>
    /\ shown' = [mode |-> "human", jobs |-> LogsToDisplay(served, jobLogs)]
    /\ trace' = Append(trace, "display")
    /\ result' = "ok"
    /\ lpc' = "end"
    /\ UNCHANGED <<lfilter, jsonOutput, filters, steps, logsParams, served, jobLogs,
                   fdvars, pfvars,
                   duvars, fmvars, csvars, fjvars>>

NextLogs ==
    \/ L_ParseError
    \/ L_Parsed
    \/ L_RemoteError
    \/ L_UnmarshalError
    \/ L_Unmarshalled
    \/ L_FilterJobLogs
    \/ L_DisplayJson
    \/ L_DisplayHuman

SpecLogs == InitLogs /\ [][NextLogs]_vars

\* run returned an error.
LogsFailed == result \notin {"", "ok"}

(***************************************************************************)
(* displayDuPayload of the du command, src/unnamed/part_001:119-148, with  *)
(* HasAnyPrefix and FilesBlacklist of src/utils/utils.go.                  *)
(***************************************************************************)
MaxFiles == 2

\* var FilesBlacklist = []string{".git/", "/.git/"}
FilesBlacklist == <<S(".git/"), S("/.git/")>>

\* strings.HasPrefix(str, prefix)
HasPrefix(str, prefix) ==
    Len(prefix) <= Len(str) /\ SubSeq(str, 1, Len(prefix)) = prefix

\* HasAnyPrefix(str, prefixes)
HasAnyPrefix(str, prefixes) ==
    \E k \in 1..Len(prefixes) : HasPrefix(str, prefixes[k])

\* The file names and the sizes of a disk-usage response.
DuNames ==
    {<<".git/", "config">>, <<"/.git/", "HEAD">>, <<"/data">>, <<"/code/", ".git/">>}
DuSizes ==
    {[raw |-> 0, human_readable |-> S("0 Bytes")],
     [raw |-> 2048, human_readable |-> S("2 KiB")]}
DuEntries == [name : DuNames, size : DuSizes]

\* header := []string{"SIZE", "NAME"}
DuHeader == <<S("SIZE"), S("NAME")>>

\* The row of an entry: its size as asked for, then "." + name.
DuRow(entry, human) ==
    <<IF human THEN entry.size.human_readable ELSE entry.size.raw, <<".">> \o entry.name>>

InitDu ==
    /\ duInfo \in SeqsUpTo(DuEntries, MaxFiles)
    /\ humanReadable \in BOOLEAN
    /\ duIdx = 0
    /\ duRows = <<>>
    /\ dupc = "call"
    /\ duTable = <<>>
    /\ duErr = ""
    /\ IdleFD
    /\ IdlePF
    /\ IdleLogs
    /\ IdleFm
    /\ IdleCase
    /\ IdleFJ

\* if len(p.DiskUsageInfo) == 0 { return errors.New(...) }
Du_ReturnNoFiles ==
    /\ dupc = "call"
    /\ Len(duInfo) = 0
    /\ duErr' = "no files matching filter criteria"
    /\ dupc' = "done"
    /\ UNCHANGED <<duInfo, humanReadable, duIdx, duRows, duTable, fdvars, pfvars, lgvars,
                   fmvars, csvars, fjvars>>

\* header := ...; var rows [][]any; for _, diskUsageInfo := range ...
Du_EnterLoop ==
    /\ dupc = "call"
    /\ Len(duInfo) # 0
    /\ duIdx' = 0
    /\ duRows' = <<>>
    /\ dupc' = "loop"
    /\ UNCHANGED <<duInfo, humanReadable, duTable, duErr, fdvars, pfvars, lgvars, fmvars,
                   csvars, fjvars>>

\* if datautils.HasAnyPrefix(diskUsageInfo.Name, config.FilesBlacklist) { continue }
Du_SkipBlacklisted ==
    /\ dupc = "loop"
    /\ duIdx < Len(duInfo)
    /\ HasAnyPrefix(duInfo[duIdx + 1].name, FilesBlacklist)
    /\ duIdx' = duIdx + 1
    /\ UNCHANGED <<duInfo, humanReadable, duRows, dupc, duTable, duErr, fdvars, pfvars,
                   lgvars, fmvars, csvars, fjvars>>

\* rows = append(rows, row)
Du_AppendRow ==
    /\ dupc = "loop"
    /\ duIdx < Len(duInfo)
    /\ ~HasAnyPrefix(duInfo[duIdx + 1].name, FilesBlacklist)
    /\ duRows' = Append(duRows, DuRow(duInfo[duIdx + 1], humanReadable))
    /\ duIdx' = duIdx + 1
    /\ UNCHANGED <<duInfo, humanReadable, dupc, duTable, duErr, fdvars, pfvars, lgvars,
                   fmvars, csvars, fjvars>>

\* displayer.DisplayTable(header, rows, ...); return nil
Du_DisplayTable ==
    /\ dupc = "loop"
    /\ duIdx = Len(duInfo)
    /\ duTable' = [header |-> DuHeader, rows |-> duRows]
    /\ duErr' = "nil"
    /\ dupc' = "done"
    /\ UNCHANGED <<duInfo, humanReadable, duIdx, duRows, fdvars, pfvars, lgvars, fmvars,
                   csvars, fjvars>>

NextDu ==
    \/ Du_ReturnNoFiles
    \/ Du_EnterLoop
    \/ Du_SkipBlacklisted
    \/ Du_AppendRow
    \/ Du_DisplayTable

SpecDu == InitDu /\ [][NextDu]_vars

(***************************************************************************)
(* ParseFormatParameters, src/utils/utils.go:129-140.                      *)
(***************************************************************************)
MaxFormatTokens == 3

\* The tokens given with --format.
FormatTokens ==
    {<<"A">>, <<"A", "=">>, <<"A", "=", "2">>, <<"B", "=", "2", "=", "3">>,
     <<"B", "=", "failed">>, <<"=", "2">>}

\* A split at every '=': the second part ends at the second '='.
SplitEvery(str) ==
    IF StringsContains(str, "=")
    THEN <<SplitHead(str), SplitHead(SplitTail(str))>>
    ELSE <<str>>

\* strings.SplitN(str, "=", 2)
SplitN(str) ==
    IF StringsContains(str, "=") THEN <<SplitHead(str), SplitTail(str)>> ELSE <<str>>

\* m[k] = v on a Go map
MapSet(m, k, v) == [x \in DOMAIN m \cup {k} |-> IF x = k THEN v ELSE m[x]]

InitFm ==
    /\ formatOptions \in SeqsUpTo(FormatTokens, MaxFormatTokens)
    /\ parsedFilters = [k \in {} |-> <<>>]
    /\ fmIdx = 0
    /\ fmpc = "loop"
    /\ IdleFD
    /\ IdlePF
    /\ IdleLogs
    /\ IdleDu
    /\ IdleCase
    /\ IdleFJ

\* len(filterNameAndValue) < 2: parsedFilters[filterNameAndValue[0]] = ""
Fm_SetEmpty ==
    /\ fmpc = "loop"
    /\ fmIdx < Len(formatOptions)
    /\ LET filterNameAndValue == SplitN(formatOptions[fmIdx + 1])
       IN /\ Len(filterNameAndValue) < 2
          /\ parsedFilters' = MapSet(parsedFilters, filterNameAndValue[1], <<>>)
    /\ fmIdx' = fmIdx + 1
    /\ UNCHANGED <<formatOptions, fmpc, fdvars, pfvars, lgvars, duvars, csvars, fjvars>>

\* else: parsedFilters[filterNameAndValue[0]] = filterNameAndValue[1]
Fm_SetValue ==
    /\ fmpc = "loop"
    /\ fmIdx < Len(formatOptions)
    /\ LET filterNameAndValue == SplitN(formatOptions[fmIdx + 1])
       IN /\ Len(filterNameAndValue) >= 2
          /\ parsedFilters' =
                 MapSet(parsedFilters, filterNameAndValue[1], filterNameAndValue[2])
    /\ fmIdx' = fmIdx + 1
    /\ UNCHANGED <<formatOptions, fmpc, fdvars, pfvars, lgvars, duvars, csvars, fjvars>>

\* return parsedFilters
Fm_Return ==
    /\ fmpc = "loop"
    /\ fmIdx = Len(formatOptions)
    /\ fmpc' = "returned"
    /\ UNCHANGED <<formatOptions, parsedFilters, fmIdx, fdvars, pfvars, lgvars, duvars,
                   csvars, fjvars>>

NextFm ==
    \/ Fm_SetEmpty
    \/ Fm_SetValue
    \/ Fm_Return

SpecFm == InitFm /\ [][NextFm]_vars

(***************************************************************************)
(* Two calls of ParseFilterParameters, src/utils/utils.go:85-127, one      *)
(* after the other, on two inputs that differ in the letter case of their  *)
(* keys only.  The parser's steps are the actions PF_... above.            *)
(***************************************************************************)
MaxCaseTokens == 2

CaseKeyAtoms == {"status", "STATUS", "name", "Name", "Bogus", "bogus"}
CaseValAtoms == {"failed", "Failed"}

CaseTokens ==
    {<<k, "=", v>> : k \in CaseKeyAtoms, v \in CaseValAtoms}
        \cup {<<"status">>, <<"STATUS">>}

\* Two tokens that are equal but for the letter case of the key.
TokenPairs ==
    {p \in CaseTokens \X CaseTokens :
        /\ Len(p[1]) = Len(p[2])
        /\ LowerAtom(p[1][1]) = LowerAtom(p[2][1])
        /\ \A k \in 2..Len(p[1]) : p[1][k] = p[2][k]}

InitCase ==
    /\ filterNames = ListFilterNames
    /\ \E ps \in SeqsUpTo(TokenPairs, MaxCaseTokens) :
           /\ filter = [k \in 1..Len(ps) |-> ps[k][1]]
           /\ other = [k \in 1..Len(ps) |-> ps[k][2]]
    /\ first = <<>>
    /\ i = 0
    /\ searchFilters = EmptyMap
    /\ statusFilters = <<>>
    /\ ppc = "loop"
    /\ stdout = <<>>
    /\ ret = <<>>
    /\ listParams = <<>>
    /\ IdleFD
    /\ IdleLogs
    /\ IdleDu
    /\ IdleFm
    /\ IdleFJ

\* The first call has ended: keep how, and call the parser on the other input.
Case_ParseOther ==
    /\ ppc \in {"exit", "returned"}
    /\ first = <<>>
    /\ first' = [filter |-> filter, ppc |-> ppc, stdout |-> stdout, ret |-> ret, i |-> i]
    /\ filter' = other
    /\ i' = 0
    /\ searchFilters' = EmptyMap
    /\ statusFilters' = <<>>
    /\ ppc' = "loop"
    /\ stdout' = <<>>
    /\ ret' = <<>>
    /\ UNCHANGED <<filterNames, listParams, other, fdvars, lgvars, duvars, fmvars,
                   fjvars>>

NextCase ==
    \/ PF_ExitWrongFormat
    \/ PF_ExitFilterNotValid
    \/ PF_ExitStatusNotValid
    \/ PF_AppendStatus
    \/ PF_AppendSearch
    \/ PF_Return
    \/ Case_ParseOther

SpecCase == InitCase /\ [][NextCase]_vars

(***************************************************************************)
(* filterJobLogs step by step, src/cmd/logs.go:181-211: the range over the *)
(* record map visits the records in any order (Go leaves the iteration     *)
(* order of a map open), then the delete loop runs over unwantedLogs.      *)
(* With it, ParseFilterParameters called twice on the same input.          *)
(***************************************************************************)
MaxDetTokens == 2

\* Tokens of the single-valued keys of logs, every one of them valid.
DetTokens ==
    { <<"compute_backend", "=", "kubernetes">>, <<"compute_backend", "=", "htcondor">>,
      <<"status", "=", "failed">>, <<"docker_img", "=">> }

\* The orders filters.SingleFilterKeys is given in.
KeyOrders ==
    {LogsSingleFilters, <<S("status"), S("docker_img"), S("compute_backend")>>}

\* The outer loop left at the first unwanted record.
AppendUnwantedOnce(list, id) == IF Len(list) > 0 THEN list ELSE Append(list, id)

\* unwantedLogs = append(unwantedLogs, jobLogKey)
AppendUnwanted(list, id) == Append(list, id)

\* filterJobLogs is entered with parsed filters and a deserialized response.
InitDetFilter ==
    /\ lfilter \in SeqsUpTo(DetTokens, MaxDetTokens)
    /\ jsonOutput = FALSE
    /\ \E keys \in KeyOrders :
           filters = [ParseLogsFilters(lfilter) EXCEPT !.SingleFilterKeys = keys]
    /\ steps = <<>>
    /\ logsParams = LogsRequest(<<>>)
    /\ served \in Payloads
    /\ jobLogs = served
    /\ lpc = "filter"
    /\ trace = <<"parse", "remote">>
    /\ diag = <<>>
    /\ shown = <<>>
    /\ result = ""
    /\ visited = {}
    /\ unwantedLogs = <<>>
    /\ delIdx = 0
    /\ fjpc = "range"
    /\ IdlePF
    /\ IdleCase

\* ParseFilterParameters is called on an input, then on the same input.
InitDetParse ==
    /\ filterNames \in FilterNameSets
    /\ filter \in SeqsUpTo(CaseTokens, MaxCaseTokens)
    /\ other = filter
    /\ first = <<>>
    /\ i = 0
    /\ searchFilters = EmptyMap
    /\ statusFilters = <<>>
    /\ ppc = "loop"
    /\ stdout = <<>>
    /\ ret = <<>>
    /\ listParams = <<>>
    /\ IdleLogs
    /\ IdleFJ

InitDet ==
    /\ InitDetFilter \/ InitDetParse
    /\ IdleFD
    /\ IdleDu
    /\ IdleFm

\* The range loop is at a record that fails some key: append, break.
FJ_MarkUnwanted ==
    /\ fjpc = "range"
    /\ \E jobLogKey \in DOMAIN jobLogs \ visited :
           /\ IsUnwanted(filters, JobLogsMap(jobLogs)[jobLogKey])
           /\ unwantedLogs' = AppendUnwanted(unwantedLogs, jobLogKey)
           /\ visited' = visited \cup {jobLogKey}
    /\ UNCHANGED <<delIdx, fjpc, lgvars, fdvars, pfvars, duvars, fmvars, csvars>>

\* The range loop is at a record that fails no key.
FJ_KeepWanted ==
    /\ fjpc = "range"
    /\ \E jobLogKey \in DOMAIN jobLogs \ visited :
           /\ ~IsUnwanted(filters, JobLogsMap(jobLogs)[jobLogKey])
           /\ visited' = visited \cup {jobLogKey}
    /\ UNCHANGED <<unwantedLogs, delIdx, fjpc, lgvars, fdvars, pfvars, duvars, fmvars,
                   csvars>>

\* The range loop has been at every record.
FJ_RangeEnd ==
    /\ fjpc = "range"
    /\ visited = DOMAIN jobLogs
    /\ delIdx' = 0
    /\ fjpc' = "delete"
    /\ UNCHANGED <<visited, unwantedLogs, lgvars, fdvars, pfvars, duvars, fmvars, csvars>>

\* delete(*jobLogs, log)
FJ_Delete ==
    /\ fjpc = "delete"
    /\ delIdx < Len(unwantedLogs)
    /\ jobLogs' = DeleteLogs(jobLogs, {unwantedLogs[delIdx + 1]})
    /\ delIdx' = delIdx + 1
    /\ UNCHANGED <<visited, unwantedLogs, fjpc, lfilter, jsonOutput, filters, steps,
                   logsParams, served, lpc, trace, diag, shown, result, fdvars, pfvars,
                   duvars, fmvars, csvars>>

\* return nil
FJ_Return ==
    /\ fjpc = "delete"
    /\ delIdx = Len(unwantedLogs)
    /\ fjpc' = "done"
    /\ trace' = Append(trace, "filter")
    /\ lpc' = "display"
    /\ UNCHANGED <<visited, unwantedLogs, delIdx, lfilter, jsonOutput, filters, steps,
                   logsParams, served, jobLogs, diag, shown, result, fdvars, pfvars,
                   duvars, fmvars, csvars>>

NextDet ==
    \/ FJ_MarkUnwanted
    \/ FJ_KeepWanted
    \/ FJ_RangeEnd
    \/ FJ_Delete
    \/ FJ_Return
    \/ PF_ExitWrongFormat
    \/ PF_ExitFilterNotValid
    \/ PF_ExitStatusNotValid
    \/ PF_AppendStatus
    \/ PF_AppendSearch
    \/ PF_Return
    \/ Case_ParseOther

SpecDet == InitDet /\ [][NextDet]_vars

(***************************************************************************)
(* Properties of FormatData.                                               *)
(***************************************************************************)
Positions(s) == [k \in 1..Len(s) |-> k]

\* Positions of h whose column name is a key of the rule set f, ascending.
KeptPositions(h, f) == SelectSeq(Positions(h), LAMBDA j : h[j] \in DOMAIN f)

\* The elements of s at the positions P, in the order of P.
Pick(s, P) == [k \in 1..Len(P) |-> s[P[k]]]

\* The text a cell is expected to show.
CellText(c) == IF c.kind = "int" THEN Digits[c.n + 1] ELSE c.s

\* Row r passes every column of h that has a non-empty rule value in f.
RowMatches(h, r, f) ==
    \A j \in 1..Len(h) :
        (h[j] \in DOMAIN f /\ f[h[j]] # "") => CellText(r[j]) = f[h[j]]

\* Indexes of the rows of d that pass, ascending.
MatchingRows(h, d, f) == SelectSeq(Positions(d), LAMBDA k : RowMatches(h, d[k], f))

Min(a, b) == IF a < b THEN a ELSE b

\* C1: with a non-empty rule set, FormatData leaves as header the original
\* header restricted to the names that are keys of the rule set, in the
\* original order, and every surviving row holds the cells of those same
\* original positions, in the same order (adjacent absent columns are all
\* removed).
C1_ColumnProjection ==
    (pc = "done" /\ DOMAIN formatFilters # {}) =>
        LET P == KeptPositions(header0, formatFilters) IN
            /\ header = Pick(header0, P)
            /\ Len(origin) = Len(data)
            /\ \A k \in 1..Len(data) :
                   /\ origin[k] \in 1..Len(data0)
                   /\ data[k] = Pick(data0[origin[k]], P)

\* C1 witness: the two adjacent columns A and B, both absent from the rule
\* set, were removed from a table of two rows and C was kept.
C1_Witness ==
    /\ pc = "done"
    /\ pass = 1
    /\ header0 = <<"A", "B", "C">>
    /\ DOMAIN formatFilters = {"C"}
    /\ formatFilters["C"] = ""
    /\ Len(data0) = 2
    /\ header = <<"C">>
    /\ Len(data) = 2

\* C2: with a non-empty rule set, the rows left are the original rows, in
\* their original relative order, whose stringified cell equals the rule
\* value in every header column that has a non-empty rule value; while the
\* rows of a column are scanned, every row the cursor has passed matches
\* (a removal never skips the row that follows it).
C2_RowFilter ==
    /\ (pc = "done" /\ DOMAIN formatFilters # {}) =>
           /\ origin = MatchingRows(header0, data0, formatFilters)
           /\ Len(data) = Len(origin)
    /\ pc = "row" =>
           \A r \in 1..Min(row, Len(data)) :
               CellText(data[r][col + 1]) = formatFilters[header[col + 1]]

\* C2 witness: two consecutive rows failed a filtered column and both were
\* removed.
C2_Witness ==
    /\ pc = "done"
    /\ pass = 1
    /\ Len(data0) = 2
    /\ header # <<>>
    /\ data = <<>>

\* C3: a second call of FormatData with the same rule set, on the header and
\* rows the first call produced, changes neither the header nor the rows.
C3_Idempotent ==
    (pass = 2 /\ pc = "done") => (header = header0 /\ data = data0)

\* C3 witness: the second call has returned; the first call had removed
\* column A and left the columns B and C, B filtered, and a row.
C3_Witness ==
    /\ pass = 2
    /\ pc = "done"
    /\ header = <<"B", "C">>
    /\ formatFilters["B"] # ""
    /\ Len(data) >= 1

\* C4: with an empty rule set the header and every row stay as they were.
C4_NoRulesNoChange ==
    (pc # "idle" /\ DOMAIN formatFilters = {}) => (header = header0 /\ data = data0)

\* C4 witness: FormatData returned on an empty rule set and a table of two
\* columns or more and one row or more.
C4_Witness ==
    /\ pc = "done"
    /\ DOMAIN formatFilters = {}
    /\ Len(header) >= 2
    /\ Len(data) >= 1

\* C5: every row is as long as the header after each step of the column loop
\* and of the row loop and at the end, and the cursors stay within the header
\* and the rows: col <= len(header) and row <= len(data), strictly below
\* wherever a cell is read.
C5_Aligned ==
    /\ \A r \in 1..Len(data) : Len(data[r]) = Len(header)
    /\ pc \in {"col", "row"} => (0 <= col /\ col <= Len(header))
    /\ pc = "row" => (col < Len(header) /\ 0 <= row /\ row <= Len(data))

\* C5 witness: in the row loop, after a column removal and a row removal.
C5_Witness ==
    /\ pc = "row"
    /\ Len(header) < Len(header0)
    /\ Len(data) < Len(data0)
    /\ Len(data) >= 1

(***************************************************************************)
(* Properties of ParseFilterParameters.  The expectations are written on   *)
(* the tokens themselves, apart from the operators of the model.           *)
(***************************************************************************)
\* The token has no '=' character.
TokMalformed(tok) == \A k \in 1..Len(tok) : tok[k] # "="

EqPos(tok) == CHOOSE k \in 1..Len(tok) : tok[k] = "=" /\ \A m \in 1..(k - 1) : tok[m] # "="

Folded(a) ==
    IF a = "STATUS" THEN "status" ELSE IF a = "Bogus" THEN "bogus"
    ELSE IF a = "Name" THEN "name"
    ELSE IF a = "Failed" THEN "failed" ELSE a

\* Key of a token with '=': what precedes the first '=', case folded.
TokKey(tok) == [k \in 1..(EqPos(tok) - 1) |-> Folded(tok[k])]

\* Value of a token with '=': what follows the first '=', as typed.
TokVal(tok) == [k \in 1..(Len(tok) - EqPos(tok)) |-> tok[EqPos(tok) + k]]

Declared(names) == {names[k] : k \in 1..Len(names)}

\* The run-status names, deleted included.
RunStatusNames ==
    {<<"created">>, <<"running">>, <<"finished">>, <<"failed">>, <<"stopped">>,
     <<"queued">>, <<"pending">>, <<"deleted">>}

UnknownKey(tok, names) == ~TokMalformed(tok) /\ TokKey(tok) \notin Declared(names)

BadStatus(tok, names) ==
    /\ ~TokMalformed(tok)
    /\ TokKey(tok) = <<"status">>
    /\ <<"status">> \in Declared(names)
    /\ TokVal(tok) \notin RunStatusNames

Rejected(tok, names) ==
    TokMalformed(tok) \/ UnknownKey(tok, names) \/ BadStatus(tok, names)

\* Position of the first token the parser has to reject, 0 when there is none.
FirstRejected(f, names) ==
    IF \E k \in 1..Len(f) : Rejected(f[k], names)
    THEN CHOOSE k \in 1..Len(f) :
             Rejected(f[k], names) /\ \A m \in 1..(k - 1) : ~Rejected(f[m], names)
    ELSE 0

Returned == ppc \in {"returned", "called"}

\* Values of the tokens of f whose key is key, in input order.
ValuesOf(f, key) ==
    LET at == SelectSeq(Positions(f), LAMBDA k : TokKey(f[k]) = key)
    IN [k \in 1..Len(at) |-> TokVal(f[at[k]])]

\* C6 as stated: whenever a token has no '=', parsing fails with the
\* malformed-filter error and returns nothing.
C6_AsStated ==
    (\E k \in 1..Len(filter) : TokMalformed(filter[k])) =>
        /\ ~Returned
        /\ ret = <<>>
        /\ ppc = "exit" => stdout = <<"wrong_input_format", <<>>>>

\* C6 amended: whenever a token has no '=', parsing fails and returns no
\* status list and no search object (the loop never goes past the first
\* rejected token and no request is built); the error is the malformed-filter
\* error when that token is the first token the parser rejects.
C6_MalformedFails ==
    (\E k \in 1..Len(filter) : TokMalformed(filter[k])) =>
        /\ ~Returned
        /\ ret = <<>>
        /\ listParams = <<>>
        /\ ppc = "loop" => i < FirstRejected(filter, filterNames)
        /\ (ppc = "exit" /\ TokMalformed(filter[FirstRejected(filter, filterNames)])) =>
               stdout = <<"wrong_input_format", <<>>>>

\* C6 witness: the parser stopped on a token without '=' after it had
\* recorded values of earlier tokens, and returned nothing.
C6_Witness ==
    /\ ppc = "exit"
    /\ stdout = <<"wrong_input_format", <<>>>>
    /\ i >= 1
    /\ statusFilters # <<>>
    /\ DOMAIN searchFilters # {}
    /\ ret = <<>>

\* C7 as stated: every token with an undeclared key makes parsing fail with
\* the error that names that key, wherever it stands and whatever the other
\* tokens are.
C7_AsStated ==
    \A k \in 1..Len(filter) :
        UnknownKey(filter[k], filterNames) =>
            /\ ~Returned
            /\ ppc = "exit" => stdout = <<"filter_not_valid", TokKey(filter[k])>>

\* C7 amended: every token whose case-folded key is not declared makes
\* parsing fail, at every position; the error names that key when the token
\* is the first token the parser rejects.
C7_UnknownKeyFails ==
    \A k \in 1..Len(filter) :
        UnknownKey(filter[k], filterNames) =>
            /\ ~Returned
            /\ ppc = "loop" => i < k
            /\ (ppc = "exit" /\ k = FirstRejected(filter, filterNames)) =>
                   stdout = <<"filter_not_valid", TokKey(filter[k])>>

\* C7 witness: the parser stopped on an undeclared key that is not the first
\* token, and printed the case-folded key.
C7_Witness ==
    /\ ppc = "exit"
    /\ i >= 1
    /\ stdout = <<"filter_not_valid", <<"bogus">>>>

\* C8: on a successful parse the status list is the sequence of the values of
\* the status tokens in input order, and every key of the search mapping
\* holds the values of its tokens in input order, duplicates kept.
C8_MultiValuesInOrder ==
    Returned =>
        /\ ret[1] = ValuesOf(filter, <<"status">>)
        /\ DOMAIN searchFilters =
               {TokKey(filter[k]) : k \in 1..Len(filter)} \ {<<"status">>}
        /\ \A key \in DOMAIN searchFilters : searchFilters[key] = ValuesOf(filter, key)

\* C8 witness: a successful parse with a status value and with a search key
\* given the same value twice.
C8_Witness ==
    /\ ppc = "returned"
    /\ Len(ret[1]) >= 1
    /\ \E key \in DOMAIN searchFilters :
           /\ Len(searchFilters[key]) = 2
           /\ searchFilters[key][1] = searchFilters[key][2]

\* C9 as stated: every status token with a value outside the run statuses
\* makes parsing fail with the invalid-value error that names that value.
C9_AsStated ==
    \A k \in 1..Len(filter) :
        BadStatus(filter[k], filterNames) =>
            /\ ~Returned
            /\ ppc = "exit" => stdout = <<"status_not_valid", TokVal(filter[k])>>

\* C9 amended: in ParseFilterParameters every status token with a value
\* outside the run statuses (deleted included) makes parsing fail, and the
\* error is the invalid-value error naming that value when the token is the
\* first token the parser rejects; a status token whose value, exactly as
\* typed, is a run status is never the token the parser stops on.
C9_StatusDomain ==
    \A k \in 1..Len(filter) :
        /\ BadStatus(filter[k], filterNames) =>
               /\ ~Returned
               /\ ppc = "loop" => i < k
               /\ (ppc = "exit" /\ k = FirstRejected(filter, filterNames)) =>
                      stdout = <<"status_not_valid", TokVal(filter[k])>>
        /\ ( /\ ~TokMalformed(filter[k])
             /\ TokKey(filter[k]) = <<"status">>
             /\ <<"status">> \in Declared(filterNames)
             /\ TokVal(filter[k]) \in RunStatusNames ) =>
               ~(ppc = "exit" /\ i + 1 = k)

\* C9 witness: status=deleted was accepted and a later status=Failed, a run
\* status but for its letter case, was rejected by name.
C9_Witness ==
    /\ ppc = "exit"
    /\ stdout = <<"status_not_valid", <<"Failed">>>>
    /\ \E k \in 1..Len(statusFilters) : statusFilters[k] = <<"deleted">>

\* Keys of a marshalled object: the one-atom strings followed by a colon.
JsonKeys(js) ==
    {<<js[p + 1]>> : p \in {q \in 1..(Len(js) - 3) :
                              js[q] = "\"" /\ js[q + 2] = "\"" /\ js[q + 3] = ":"}}

\* C10: the search string is a JSON object only if a key other than status
\* received a value, otherwise it is empty and never the empty object; when
\* it is emitted its keys are the search keys of the input, never status;
\* the list request carries the status list and that search string.
C10_SearchObject ==
    LET given_keys == {TokKey(filter[k]) : k \in 1..Len(filter)} \ {<<"status">>} IN
    /\ Returned =>
           /\ (ret[2] # <<>>) <=> (given_keys # {})
           /\ ret[2] # <<"{", "}">>
           /\ ret[2] # <<>> =>
                  /\ JsonKeys(ret[2]) = given_keys
                  /\ <<"status">> \notin JsonKeys(ret[2])
    /\ ppc = "called" => listParams = <<ret[1], ret[2]>>

\* C10 witness: list built its request from status filters only; the search
\* parameter is the empty string.
C10_Witness ==
    /\ ppc = "called"
    /\ listParams[1] # <<>>
    /\ listParams[2] = <<>>

(***************************************************************************)
(* Properties of the logs command.                                         *)
(***************************************************************************)

\* The request has been built and sent.
Requested == logsParams # <<>>

\* The strings the request carries, in any of its parameters.
RequestValues ==
    {logsParams.access_token, logsParams.workflow_id_or_name, logsParams.page}
        \cup {logsParams.steps[k] : k \in 1..Len(logsParams.steps)}

\* The value the tokens of f leave under a single-valued key: the last one.
LastValueOf(f, key) ==
    LET values == ValuesOf(f, key)
    IN values[Len(values)]

\* The values of the single-valued keys are in the FilterSpec as typed.
SingleValuesKept ==
    \A k \in 1..Len(LogsSingleFilters) :
        LET key == LogsSingleFilters[k]
        IN IF Len(ValuesOf(lfilter, key)) = 0
           THEN GetSingle(filters, key) = <<>>
           ELSE GetSingle(filters, key) = LastValueOf(lfilter, key)

Filtered == \E k \in 1..Len(trace) : trace[k] = "filter"

\* The value typed for a single-valued key, "" when the key was not given.
Typed(key) ==
    LET values == ValuesOf(lfilter, key)
    IN IF Len(values) = 0 THEN <<>> ELSE values[Len(values)]

\* The alias table: human alias -> internal identifier, "" for anything else.
Alias(v) ==
    IF v = <<"kubernetes">> THEN <<"k8s">>
    ELSE IF v = <<"htcondor">> THEN <<"htc">>
    ELSE <<>>

\* The value a record's field is compared with under a single-valued key.
Expected(key) == IF key = <<"compute_backend">> THEN Alias(Typed(key)) ELSE Typed(key)

\* The field of a record a single-valued key is compared with.
Field(item, key) ==
    CASE key = <<"compute_backend">> -> item.compute_backend
      [] key = <<"docker_img">> -> item.docker_img
      [] key = <<"status">> -> item.status

SingleKeys == {<<"compute_backend">>, <<"docker_img">>, <<"status">>}

\* The values the fields are compared with, by key.
ExpectedAll == [key \in SingleKeys |-> Expected(key)]

\* The record fails the filter of key, exp being the values to compare with.
Fails(exp, item, key) == exp[key] # <<>> /\ Field(item, key) # exp[key]

\* C12: after filterJobLogs a record of the response is removed if and only
\* if some single-valued key with a non-empty (remapped) value differs from
\* the record's field of that name; a key with an empty or absent value
\* removes no record.
C12_ExactlyMatching ==
    Filtered =>
        LET exp == ExpectedAll
        IN /\ DOMAIN jobLogs =
                  {id \in DOMAIN served :
                      \A key \in SingleKeys : ~Fails(exp, served[id], key)}
           /\ \A id \in DOMAIN served :
                  id \notin DOMAIN jobLogs <=>
                      \E key \in SingleKeys : Fails(exp, served[id], key)

\* Two records served, status=failed active and docker_img given empty: the
\* failed record stays, the finished one is removed.
C12_Witness ==
    /\ Filtered
    /\ Typed(<<"status">>) = <<"failed">>
    /\ <<"docker_img", "=">> \in {lfilter[k] : k \in 1..Len(lfilter)}
    /\ DOMAIN served = {"j1", "j2"}
    /\ served["j1"].status = <<"failed">>
    /\ served["j2"].status = <<"finished">>
    /\ DOMAIN jobLogs = {"j1"}

\* The keys other than compute_backend accept the record, compared as typed.
OtherKeysAccept(typed, item) ==
    \A key \in {<<"docker_img">>, <<"status">>} :
        typed[key] = <<>> \/ Field(item, key) = typed[key]

\* C13: a record whose compute_backend is k8s is removed by the filter
\* compute_backend=htcondor and is retained by compute_backend=kubernetes
\* (when the other keys accept it): the typed alias is mapped through the
\* alias table before the comparison.  The other keys are compared with
\* the value as typed.
C13_BackendAlias ==
    Filtered =>
        LET typed == [key \in SingleKeys |-> Typed(key)]
        IN \A id \in DOMAIN served :
               /\ served[id].compute_backend = <<"k8s">> =>
                      /\ typed[<<"compute_backend">>] = <<"htcondor">> =>
                             id \notin DOMAIN jobLogs
                      /\ typed[<<"compute_backend">>] = <<"kubernetes">>
                             /\ OtherKeysAccept(typed, served[id]) => id \in DOMAIN jobLogs
               /\ ~OtherKeysAccept(typed, served[id]) => id \notin DOMAIN jobLogs

\* A k8s record kept under compute_backend=kubernetes.
C13_Witness ==
    /\ Filtered
    /\ Typed(<<"compute_backend">>) = <<"kubernetes">>
    /\ \E id \in DOMAIN jobLogs : jobLogs[id].compute_backend = <<"k8s">>
    /\ \E id \in DOMAIN served : id \notin DOMAIN jobLogs

\* C14: filterJobLogs only deletes entries: the keys after the call are
\* keys of the collection before it, every record that remains is equal in
\* every field to the record before the call, and the FilterSpec is the one
\* the parser returned.
C14_OnlyDeletes ==
    Filtered =>
        /\ DOMAIN jobLogs \subseteq DOMAIN served
        /\ \A id \in DOMAIN jobLogs : jobLogs[id] = served[id]
        /\ filters = ParseLogsFilters(lfilter)

\* A record with no start time stays while another record is deleted.
C14_Witness ==
    /\ Filtered
    /\ DOMAIN served = {"j1", "j2"}
    /\ DOMAIN jobLogs = {"j2"}
    /\ jobLogs["j2"].started_at = NilPtr

\* The step names of a collection of job records.
StepNamesOf(jl) == {jl[id].job_name : id \in DOMAIN jl}

\* The requested steps that no record to be displayed carries, as requested.
MissingOf(jl) ==
    SelectSeq(ValuesOf(lfilter, <<"step">>), LAMBDA step : step \notin StepNamesOf(jl))

\* C15 as stated: once the filtered records are at hand, the command ends
\* successfully, displays them, and its not-found diagnostic lists exactly
\* the requested step names that none of them carries, in the order
\* requested, whatever the output mode.
C15_AsStated ==
    (Filtered /\ lpc = "end") =>
        /\ result = "ok"
        /\ shown # <<>>
        /\ shown.jobs = jobLogs
        /\ diag = MissingOf(jobLogs)

\* C15 in the human-friendly mode: the diagnostic lists the missing steps.
C15_HumanFriendly ==
    (Filtered /\ lpc = "end" /\ ~jsonOutput) =>
        /\ result = "ok"
        /\ shown # <<>>
        /\ shown.jobs = jobLogs
        /\ diag = MissingOf(jobLogs)

\* A run in JSON mode that ends with a requested step missing.
C15_Witness ==
    /\ Filtered
    /\ lpc = "end"
    /\ jsonOutput
    /\ MissingOf(jobLogs) = <<(<<"zz">>)>>
    /\ DOMAIN jobLogs # {}

(***************************************************************************)
(* Properties of the du display.                                           *)
(***************************************************************************)

\* The entries of the response that the file blacklist does not skip.
Listed ==
    SelectSeq(duInfo, LAMBDA entry : entry.name[1] \notin {".git/", "/.git/"})

\* C16 as stated: when no row is left after all filtering, du returns the
\* empty-result error and renders no table.
C16_AsStated ==
    (dupc = "done" /\ Len(Listed) = 0) =>
        /\ duErr = "no files matching filter criteria"
        /\ duTable = <<>>

\* C16, the part du keeps: a response without any entry gives the error and
\* no table, and a table that is rendered holds one row per listed entry.
C16_EmptyResponse ==
    dupc = "done" =>
        /\ Len(duInfo) = 0 => duErr = "no files matching filter criteria" /\ duTable = <<>>
        /\ duTable # <<>> => Len(duTable.rows) = Len(Listed)

\* Every entry of the response is blacklisted and a table without rows is
\* rendered.
C16_Witness ==
    /\ dupc = "done"
    /\ Len(duInfo) = 2
    /\ Len(Listed) = 0
    /\ duErr = "nil"
    /\ duTable # <<>>
    /\ duTable.rows = <<>>

(***************************************************************************)
(* Properties of the pipeline of the logs command.                         *)
(***************************************************************************)

\* The stages of logs in the order of the source; logs has no projection.
LogsStages == <<"parse", "remote", "filter", "display">>

\* How often a stage is in the trace.
Times(stage) == Cardinality({k \in 1..Len(trace) : trace[k] = stage})

\* Position of a stage in the trace, 0 when it did not happen.
At(stage) ==
    IF Times(stage) = 0 THEN 0 ELSE CHOOSE k \in 1..Len(trace) : trace[k] = stage

\* C17: the stages of an invocation of logs happen in the fixed order
\* parsing, remote call, local filtering, display, each at most once: there
\* is at most one remote call, and the local filtering happens only after
\* the remote call and never after the display.
C17_StageOrder ==
    /\ Len(trace) <= Len(LogsStages)
    /\ trace = SubSeq(LogsStages, 1, Len(trace))
    /\ \A stage \in {"parse", "remote", "filter", "display"} : Times(stage) <= 1
    /\ Times("filter") = 1 =>
           /\ Times("remote") = 1
           /\ At("remote") < At("filter")
           /\ Times("display") = 1 => At("filter") < At("display")
    /\ Requested <=> Times("remote") = 1

\* An invocation that went through every stage and removed a record.
C17_Witness ==
    /\ trace = LogsStages
    /\ lpc = "end"
    /\ DOMAIN jobLogs # DOMAIN served

\* The parse of the tokens given fails: a token without '=', an unknown key,
\* or a value of status or compute_backend outside its domain.
ParseFails == result \in {"format", "key", "status", "compute_backend"}

\* The call or the deserialization of its answer fails.
CallFails == result \in {"remote", "unmarshal"}

NothingDisplayed == shown = <<>> /\ diag = <<>> /\ Times("display") = 0

TokCol(tok) == IF TokMalformed(tok) THEN tok ELSE SubSeq(tok, 1, EqPos(tok) - 1)

\* The rule value of a format token: what follows the first '=', "" when
\* the token has none.
TokRule(tok) == IF TokMalformed(tok) THEN <<>> ELSE TokVal(tok)

\* C19: each token sets the rule of its column, split at the first '='
\* only: right after a token is handled the mapping holds, under what
\* precedes the first '=', everything that follows it (later '=' included),
\* and the empty string for a token without '=' (so 'col' and 'col=' give
\* the same rule); the keys of the mapping are exactly the columns of the
\* tokens handled so far, and of all tokens on return.
C19_FirstEqualsSplit ==
    /\ fmIdx >= 1 =>
           /\ TokCol(formatOptions[fmIdx]) \in DOMAIN parsedFilters
           /\ parsedFilters[TokCol(formatOptions[fmIdx])] = TokRule(formatOptions[fmIdx])
    /\ DOMAIN parsedFilters = {TokCol(formatOptions[k]) : k \in 1..fmIdx}
    /\ fmpc = "returned" => fmIdx = Len(formatOptions)

\* Returned with a value that holds a later '=', and a column given bare.
C19_Witness ==
    /\ fmpc = "returned"
    /\ formatOptions = <<(<<"A">>), <<"B", "=", "2", "=", "3">>>>
    /\ parsedFilters[<<"A">>] = <<>>
    /\ parsedFilters[<<"B">>] = <<"2", "=", "3">>

(***************************************************************************)
(* Properties of the parser on inputs that differ in the case of the keys. *)
(***************************************************************************)

\* Both calls have ended.
BothParsed == first # <<>> /\ ppc \in {"exit", "returned"}

\* C20: two token sequences that differ only in the letter case of their
\* keys end the same way: both return, with the same status list and the
\* same search object, or both fail at the same token with the same error;
\* and the values returned are the values as typed, letter case included.
C20_KeyCaseInsensitive ==
    /\ BothParsed =>
           /\ ppc = first.ppc
           /\ i = first.i
           /\ stdout = first.stdout
           /\ ret = first.ret
    /\ ppc = "returned" =>
           /\ statusFilters = ValuesOf(filter, <<"status">>)
           /\ \A key \in DOMAIN searchFilters :
                  searchFilters[key] = ValuesOf(filter, key)

\* Both calls returned, on inputs whose keys differ in case, with a value
\* that keeps its capital letter.
C20_Witness ==
    /\ BothParsed
    /\ ppc = "returned"
    /\ first.filter = <<(<<"Name", "=", "Failed">>), <<"STATUS", "=", "failed">>>>
    /\ filter = <<(<<"name", "=", "Failed">>), <<"status", "=", "failed">>>>
    /\ searchFilters[<<"name">>] = <<(<<"Failed">>)>>

(***************************************************************************)
(* Properties of the passes of FormatData.                                 *)
(***************************************************************************)

\* The column pass alone: the table cut down to the columns of the rule set.
ColumnPass(h, d, f) ==
    LET P == KeptPositions(h, f)
    IN [header |-> Pick(h, P), rows |-> [k \in 1..Len(d) |-> Pick(d[k], P)]]

\* The row pass alone: the rows that pass every non-empty rule of a column.
RowPass(h, d, f) ==
    [header |-> h, rows |-> Pick(d, MatchingRows(h, d, f))]

\* The columns not yet decided are the last ones of the original header,
\* n of them, untouched and in order.
UndecidedAre(n) ==
    /\ n <= Len(header)
    /\ n <= Len(header0)
    /\ SubSeq(header, Len(header) - n + 1, Len(header))
           = SubSeq(header0, Len(header0) - n + 1, Len(header0))

\* C21: the columns are decided once each, in header order (the columns
\* still to decide are the tail of the original header, the ones decided
\* and left are all keys of the rule set); rows are tested only against a
\* column that is in the header, is a key of the rule set and has a
\* non-empty rule; and the table FormatData returns is the one of the
\* column pass followed by the row pass, which is also the one of the row
\* pass followed by the column pass.
C21_IndependentPasses ==
    /\ pc = "col" =>
           /\ col <= Len(header)
           /\ UndecidedAre(Len(header) - col)
           /\ \A j \in 1..col : header[j] \in DOMAIN formatFilters
    /\ pc = "row" =>
           /\ col < Len(header)
           /\ UndecidedAre(Len(header) - col - 1)
           /\ \A j \in 1..(col + 1) : header[j] \in DOMAIN formatFilters
           /\ formatFilters[header[col + 1]] # ""
    /\ (pc = "done" /\ DOMAIN formatFilters # {}) =>
           LET c == ColumnPass(header0, data0, formatFilters)
               cr == RowPass(c.header, c.rows, formatFilters)
               r == RowPass(header0, data0, formatFilters)
               rc == ColumnPass(r.header, r.rows, formatFilters)
           IN /\ header = cr.header
              /\ data = cr.rows
              /\ header = rc.header
              /\ data = rc.rows

\* A run in which rows were removed under column A, then column B was
\* removed, then rows were tested under column C.
C21_Witness ==
    /\ pc = "row"
    /\ pass = 1
    /\ header0 = <<"A", "B", "C">>
    /\ header = <<"A", "C">>
    /\ col = 1
    /\ formatFilters["A"] = "2"
    /\ Len(data) < Len(data0)

(***************************************************************************)
(* Determinism of the parser and of filterJobLogs.                         *)
(***************************************************************************)

\* The records of the response that fail no active single-valued filter:
\* a function of the response and of the tokens only.
KeptIds ==
    LET exp == ExpectedAll
    IN {id \in DOMAIN served : \A key \in SingleKeys : ~Fails(exp, served[id], key)}

TotalValues(m) ==
    Cardinality(UNION {{<<key, n>> : n \in 1..Len(m[key])} : key \in DOMAIN m})

\* C23: every token handled adds one value to one output: the status list
\* when its key is status, the search mapping under its key otherwise.  The
\* status list and the search mapping hold together as many values as
\* tokens were handled, all tokens on return; status is never a key of the
\* search mapping, and no key of it is empty.
C23_Partition ==
    ppc \in {"loop", "returned", "called"} =>
        /\ Len(statusFilters) + TotalValues(searchFilters) = i
        /\ <<"status">> \notin DOMAIN searchFilters
        /\ \A key \in DOMAIN searchFilters : Len(searchFilters[key]) >= 1
        /\ Len(statusFilters) =
               Cardinality({k \in 1..i : TokKey(filter[k]) = <<"status">>})
        /\ ppc # "loop" => i = Len(filter)

\* Three tokens returned as one status and two values of name.
C23_Witness ==
    /\ ppc = "returned"
    /\ Len(filter) = 3
    /\ Len(statusFilters) = 1
    /\ DOMAIN searchFilters = {<<"name">>}
    /\ Len(searchFilters[<<"name">>]) = 2

(***************************************************************************)
(* What the missing-step diagnostic of logs is computed on.                *)
(***************************************************************************)

\* The human-friendly display has run.
HumanDisplayed == shown # <<>> /\ shown.mode = "human"

\* The step names the diagnostic lists.
ListedMissing == {diag[k] : k \in 1..Len(diag)}

\* The step names requested with --filter step=...
RequestedSteps ==
    LET values == ValuesOf(lfilter, <<"step">>)
    IN {values[k] : k \in 1..Len(values)}

\* C24: the diagnostic of the human-friendly display is computed on the
\* records left by filterJobLogs: a requested step is listed as not found
\* if and only if no remaining record has that job name, so a step whose
\* record the service returned and a single-valued filter removed is
\* listed; nothing else is listed.
C24_MissingAfterFilter ==
    HumanDisplayed =>
        /\ ListedMissing \subseteq RequestedSteps
        /\ \A step \in RequestedSteps :
               step \in ListedMissing <=>
                   \A id \in DOMAIN jobLogs : jobLogs[id].job_name # step
        /\ \A id \in DOMAIN served \ DOMAIN jobLogs :
               (served[id].job_name \in RequestedSteps
                   /\ \A rest \in DOMAIN jobLogs :
                          jobLogs[rest].job_name # served[id].job_name)
                   => served[id].job_name \in ListedMissing

\* Step a was requested, the service returned its record, status=failed
\* removed it, and a is listed as not found.
C24_Witness ==
    /\ HumanDisplayed
    /\ lfilter = <<(<<"step", "=", "a">>), <<"status", "=", "failed">>>>
    /\ "j1" \in DOMAIN served
    /\ served["j1"].job_name = <<"a">>
    /\ "j1" \notin DOMAIN jobLogs
    /\ diag = <<(<<"a">>)>>

====
